---------------------------- MODULE Spec2Model ----------------------------
(***************************************************************************)
(* State-machine model of three components of the image-classification     *)
(* pipeline:                                                               *)
(*   - DataGenerator.__init__   (src/src/dataloader/dataloader.py)         *)
(*   - Accuracy_per_class and Metrics   (src/src/metrics.py)               *)
(*   - infer and save_infer     (src/src/infer.py)                         *)
(* Each component has its own specification (SpecData, SpecMetrics,        *)
(* SpecInfer); the variables of the other components stay at rest.         *)
(***************************************************************************)
EXTENDS Integers, Sequences, FiniteSets, TLC

VARIABLES
    \* ---- DataGenerator.__init__ ----
    mode,            \* argument `mode`
    use_background,  \* argument `use_background`
    tree,            \* the directory tree below config.data.path/<mode>_<image_size>
    dg_pc,           \* position inside the constructor
    li,              \* index of the label being scanned (outer loop)
    bi,              \* index of the background being scanned (inner loop)
    data,            \* self.data
    dg_err,          \* the exception the constructor raised
    dataset,         \* what the caller holds: <<>> or <<the constructed object>>
    \* ---- Metrics ----
    self_m,          \* the Metrics object: num_classes, num_metrics, metrics_name, flags
    m_op,            \* the last method called on it
    m_arg,           \* the argument(s) of that call
    m_ret,           \* what the call returned (<<>> when it raised)
    m_err,           \* the exception the call raised
    batch,           \* the batch the caller evaluates: prediction scores and true labels
    \* ---- infer and save_infer ----
    entry,            \* the function the caller called: "infer" or "save_infer"
    infer_dataloader, \* argument of infer: "None" or "given"
    infer_datapath,   \* argument of infer: "None" or "given"
    source,           \* the batches the batch source yields: the batch sizes, in order
    loader,           \* the local infer_dataloader after lines 45-50: "None", "given", "created"
    phase,            \* idle, loading-model, batch-loop, saving, done, error
    inf_err,          \* the exception that ended the call
    model,            \* "none", "built" (line 53), "loaded" (weights loaded, strict=True)
    pos,              \* number of batches taken from the source
    output,           \* infer's local `output`
    images_paths,     \* infer's local `images_paths`
    save_calls,       \* number of calls of save_infer
    sv_pc,            \* position inside save_infer
    sv_args,          \* the arguments of the save_infer call
    k,                \* save_infer's local k
    row,              \* save_infer's loop index i (from 1)
    sep,              \* argument `sep`
    file              \* the destination file: whether it exists, and its lines

dataVars == <<mode, use_background, tree, dg_pc, li, bi, data, dg_err, dataset>>
metricsVars == <<self_m, m_op, m_arg, m_ret, m_err, batch>>

inferVars == <<entry, infer_dataloader, infer_datapath, source, loader, phase, inf_err,
               model, pos, output, images_paths, save_calls, sv_pc, sv_args, k, row, sep, file>>

vars == <<dataVars, metricsVars, inferVars>>

-----------------------------------------------------------------------------
(* Bounds *)

\* number of distinct file names a leaf folder may hold
MaxFiles == 2
\* largest num_classes a Metrics object is built with
MaxClasses == 3
\* largest batch size given to compute, and yielded by infer's batch source
MaxBatch == 2
\* largest number of batches infer's batch source yields
MaxBatches == 2
\* largest number of images in a direct save_infer call
MaxImages == 2
\* largest number of ranked predictions per image in a direct save_infer call
MaxK == 3

-----------------------------------------------------------------------------
(* Generic helpers *)

Range(s) == {s[i] : i \in 1..Len(s)}

\* every enumeration order of a finite set (os.listdir returns the entries in
\* arbitrary order)
Orders(S) == {s \in [1..Cardinality(S) -> S] : \A i, j \in 1..Cardinality(S) : s[i] = s[j] => i = j}

\* the decimal digits of a natural number, as str() writes them
DigitChar(d) == <<"0", "1", "2", "3", "4", "5", "6", "7", "8", "9">>[d + 1]

RECURSIVE Digits(_)
Digits(n) == IF n < 10 THEN <<DigitChar(n)>> ELSE Digits(n \div 10) \o <<DigitChar(n % 10)>>

\* s[:n] of Python, n >= 0
Take(s, n) == SubSeq(s, 1, IF n < Len(s) THEN n ELSE Len(s))

NoFile == [exists |-> FALSE, lines |-> <<>>]

-----------------------------------------------------------------------------
(* DataGenerator *)

\* the label and background registries (src.dataloader.labels)
LABELS == <<"cat", "dog">>
BACKGROUND == <<"indoor", "outdoor">>

ValidModes == {"train", "val", "test"}
ModeInputs == ValidModes \cup {"trainval"}

\* the file names a leaf folder may hold
FILES == <<"img1", "img2", "img3", "img4">>

NoDir == [exists |-> FALSE, entries |-> {}]
Dir(S) == [exists |-> TRUE, entries |-> S]
FileSets == SUBSET {FILES[i] : i \in 1..MaxFiles}

\* A tree without the split folder.
NoSplitTree ==
    [split |-> FALSE,
     label |-> [l \in Range(LABELS) |-> NoDir],
     bg    |-> [p \in Range(LABELS) \X Range(BACKGROUND) |-> NoDir]]

\* Flat trees: <split>/<label>/<image>; label folders may be missing.
FlatTrees ==
    {[split |-> TRUE, label |-> f,
      bg |-> [p \in Range(LABELS) \X Range(BACKGROUND) |-> NoDir]] :
        f \in [Range(LABELS) -> {NoDir} \cup {Dir(S) : S \in FileSets}]}

\* Stratified trees: <split>/<label>/<background>/<image>; the entries of a
\* label folder are its background folders.
StratTrees ==
    {[split |-> TRUE,
      label |-> [l \in Range(LABELS) |->
                   IF present[l]
                   THEN Dir({b \in Range(BACKGROUND) : g[<<l, b>>].exists})
                   ELSE NoDir],
      bg    |-> [p \in Range(LABELS) \X Range(BACKGROUND) |->
                   IF present[p[1]] THEN g[p] ELSE NoDir]] :
        present \in [Range(LABELS) -> BOOLEAN],
        g \in [Range(LABELS) \X Range(BACKGROUND) -> {NoDir} \cup {Dir(S) : S \in FileSets}]}

Trees == {NoSplitTree} \cup FlatTrees \cup StratTrees

\* folder = os.path.join(dst_path, label[, background]), as the key <<label>>
\* or <<label, background>>
Folder(l, b, ub) == IF ub THEN <<LABELS[l], BACKGROUND[b]>> ELSE <<LABELS[l]>>

DirOf(t, folder) ==
    IF Len(folder) = 2 THEN t.bg[<<folder[1], folder[2]>>] ELSE t.label[folder[1]]

\* variant without the existence test
MutFolderExists(t, folder) == TRUE
\* os.path.exists(folder)
FolderExists(t, folder) == DirOf(t, folder).exists

\* (os.path.join(folder, image_name), label, background-or-None)
RecordOf(folder, name) ==
    <<folder \o <<name>>, folder[1], IF Len(folder) = 2 THEN folder[2] ELSE "None">>

\* variant that drops the last entry of a folder holding several
MutAppended(folder, order) ==
    [i \in 1..(IF Len(order) > 1 THEN Len(order) - 1 ELSE Len(order)) |-> RecordOf(folder, order[i])]
\* the records one `for image_name in os.listdir(folder)` loop appends, for one
\* enumeration order of the folder
Appended(folder, order) == [i \in 1..Len(order) |-> RecordOf(folder, order[i])]

DataInit ==
    /\ mode \in ModeInputs
    /\ use_background \in BOOLEAN
    /\ tree \in Trees
    /\ dg_pc = "call"
    /\ li = 1
    /\ bi = 1
    /\ data = <<>>
    /\ dg_err = "none"
    /\ dataset = <<>>
    /\ self_m = [num_classes |-> 0]
    /\ m_op = "idle"
    /\ m_arg = <<>>
    /\ m_ret = <<>>
    /\ m_err = "none"
    /\ batch = <<>>
    /\ entry = "none"
    /\ infer_dataloader = "None"
    /\ infer_datapath = "None"
    /\ source = <<>>
    /\ loader = "None"
    /\ phase = "idle"
    /\ inf_err = "none"
    /\ model = "none"
    /\ pos = 0
    /\ output = <<>>
    /\ images_paths = <<>>
    /\ save_calls = 0
    /\ sv_pc = "idle"
    /\ sv_args = <<>>
    /\ k = 0
    /\ row = 0
    /\ sep = <<",">>
    /\ file = NoFile

\* lines 19-35: the mode check, the split-folder check, self.data = []
DG_Begin ==
    /\ dg_pc = "call"
    /\ IF mode \notin ValidModes
       THEN /\ dg_pc' = "raised"
            /\ dg_err' = "ValueError"
       ELSE IF ~tree.split
       THEN /\ dg_pc' = "raised"
            /\ dg_err' = "FileNotFoundError"
       ELSE /\ dg_pc' = "scan"
            /\ dg_err' = dg_err
    /\ data' = <<>>
    /\ UNCHANGED <<mode, use_background, tree, li, bi, dataset>>
    /\ UNCHANGED metricsVars
    /\ UNCHANGED inferVars

\* lines 36-50: one leaf folder of the double loop
DG_ScanFolder ==
    /\ dg_pc = "scan"
    /\ li <= Len(LABELS)
    /\ LET folder == Folder(li, bi, use_background) IN
       IF ~FolderExists(tree, folder)
       THEN /\ dg_pc' = "raised"
            /\ dg_err' = "FileNotFoundError"
            /\ UNCHANGED <<data, li, bi>>
       ELSE /\ \E order \in Orders(DirOf(tree, folder).entries) :
                  data' = data \o Appended(folder, order)
            /\ IF use_background /\ bi < Len(BACKGROUND)
               THEN /\ bi' = bi + 1
                    /\ li' = li
               ELSE /\ bi' = 1
                    /\ li' = li + 1
            /\ UNCHANGED <<dg_pc, dg_err>>
    /\ UNCHANGED <<mode, use_background, tree, dataset>>
    /\ UNCHANGED metricsVars
    /\ UNCHANGED inferVars

\* lines 52-54: self.transform = get_transforms(...); the constructor returns
DG_Return ==
    /\ dg_pc = "scan"
    /\ li > Len(LABELS)
    /\ dg_pc' = "returned"
    /\ dataset' = <<[data |-> data, mode |-> mode, use_background |-> use_background]>>
    /\ UNCHANGED <<mode, use_background, tree, li, bi, data, dg_err>>
    /\ UNCHANGED metricsVars
    /\ UNCHANGED inferVars

\* line 56-57: __len__
DatasetLen(d) == Len(d.data)

DataNext == DG_Begin \/ DG_ScanFolder \/ DG_Return

SpecData == DataInit /\ [][DataNext]_vars

-----------------------------------------------------------------------------
(* Metrics and Accuracy_per_class *)

\* Strings whose characters matter are sequences of one-character strings
\* ("deg" stands for the one character of the degree sign).

\* the keys of self.metrics_onehot, in insertion order
MetricsOnehotKeys ==
    << <<"t", "o", "p", " ", "k", " ", "m", "i", "c", "r", "o">>,
       <<"t", "o", "p", " ", "k", " ", "m", "a", "c", "r", "o">> >>

\* the keys of self.metrics, in insertion order
MetricsKeys ==
    << <<"a", "c", "c", " ", "m", "i", "c", "r", "o">>,
       <<"a", "c", "c", " ", "m", "a", "c", "r", "o">>,
       <<"p", "r", "e", "c", "i", "s", "s", "i", "o", "n", " ", "m", "a", "c", "r", "o">>,
       <<"r", "e", "c", "a", "l", "l", " ", "m", "a", "c", "r", "o">>,
       <<"f", "1", "-", "s", "c", "o", "r", "e", " ", "m", "a", "c", "r", "o">> >>

\* Accuracy_per_class.get_metrics_name: f'acc class n<deg>{i + 1}' for i in range(num_classes)
GetMetricsName(C) ==
    [i \in 1..C |-> <<"a", "c", "c", " ", "c", "l", "a", "s", "s", " ", "n", "deg">> \o Digits(i)]

\* A metric value is a float: the rational num/den, den = 0 standing for nan,
\* or the scalar a torchmetrics reducer returned (ext names the reducer).
Zero == [num |-> 0, den |-> 1, ext |-> <<>>]
NaN == [num |-> 0, den |-> 0, ext |-> <<>>]

RECURSIVE GCD(_, _)
GCD(a, b) == IF b = 0 THEN a ELSE GCD(b, a % b)

\* correct / total on tensors: 0/0 is nan, not an exception
Ratio(c, t) ==
    IF t = 0 THEN NaN
    ELSE [num |-> c \div GCD(c, t), den |-> t \div GCD(c, t), ext |-> <<>>]

\* metric(y_pred, y_true).item() of a torchmetrics reducer
ExtScalar(key) == [num |-> 0, den |-> 1, ext |-> key]

\* torch.argmax(t) of a vector: the index (from 0) of the first maximal value
RECURSIVE ArgMaxUpTo(_, _)
ArgMaxUpTo(t, n) ==
    IF n = 1 THEN 1
    ELSE LET b == ArgMaxUpTo(t, n - 1) IN IF t[n] > t[b] THEN n ELSE b

ArgMax(t) == ArgMaxUpTo(t, Len(t)) - 1

\* torch.argmax(t, dim=-1)
ArgMaxRows(t) == [i \in 1..Len(t) |-> ArgMax(t[i])]

\* y_pred[y_true == label]
RECURSIVE Masked(_, _, _)
Masked(y_pred, y_true, label) ==
    IF y_pred = <<>> THEN <<>>
    ELSE (IF Head(y_true) = label THEN <<Head(y_pred)>> ELSE <<>>)
         \o Masked(Tail(y_pred), Tail(y_true), label)

\* (t == label).sum()
RECURSIVE CountEq(_, _)
CountEq(t, label) ==
    IF t = <<>> THEN 0
    ELSE (IF Head(t) = label THEN 1 ELSE 0) + CountEq(Tail(t), label)

\* variant without the total > 0 guard
MutAccValue(correct, total) == Ratio(correct, total)
\* (correct / total).item() if total > 0 else 0
AccValue(correct, total) == IF total > 0 THEN Ratio(correct, total) ELSE Zero

\* Accuracy_per_class.__call__ on label vectors (y_true.long() leaves integer
\* labels as they are)
AccuracyPerClass(C, y_pred, y_true) ==
    [c \in 1..C |->
        LET label == c - 1
            correct == CountEq(Masked(y_pred, y_true, label), label)
            total == CountEq(y_true, label)
        IN AccValue(correct, total)]

\* variant that forgets the per-class values
MutNumMetricsOf(C, rapc) == Len(MetricsOnehotKeys) + Len(MetricsKeys)
\* Metrics.__init__: self.num_metrics
NumMetricsOf(C, rapc) ==
    IF rapc THEN Len(MetricsOnehotKeys) + Len(MetricsKeys) + C
            ELSE Len(MetricsOnehotKeys) + Len(MetricsKeys)

\* Metrics.__init__: self.metrics_name
MetricsNameOf(C, rapc) ==
    IF rapc THEN MetricsOnehotKeys \o MetricsKeys \o GetMetricsName(C)
            ELSE MetricsOnehotKeys \o MetricsKeys

\* the object Metrics.__init__ leaves
NewMetrics(C, ra, rapc) ==
    [num_classes |-> C,
     num_metrics |-> NumMetricsOf(C, rapc),
     metrics_name |-> MetricsNameOf(C, rapc),
     run_argmax_on_y_true |-> ra,
     run_acc_per_class |-> rapc]

\* Metrics.compute
Compute(self, y_pred, y_true) ==
    LET yt == IF self.run_argmax_on_y_true THEN ArgMaxRows(y_true) ELSE y_true
        onehot == [i \in 1..Len(MetricsOnehotKeys) |-> ExtScalar(MetricsOnehotKeys[i])]
        yp == ArgMaxRows(y_pred)
        plain == [i \in 1..Len(MetricsKeys) |-> ExtScalar(MetricsKeys[i])]
        per_class == IF self.run_acc_per_class
                     THEN AccuracyPerClass(self.num_classes, yp, yt)
                     ELSE <<>>
    IN onehot \o plain \o per_class

\* Metrics.get_names
GetNames(self) == self.metrics_name

\* Metrics.init_metrics: np.zeros(self.num_metrics)
InitMetrics(self) == [i \in 1..self.num_metrics |-> Zero]

\* round(n / d) to an integer, ties to even (n >= 0, d > 0)
RoundHalfEven(n, d) ==
    LET q == n \div d
        r == n % d
    IN IF 2 * r > d THEN q + 1
       ELSE IF 2 * r = d THEN q + (q % 2)
       ELSE q

\* f'{value:.2f}'
Fmt2(v) ==
    IF v.ext # <<>> THEN <<"fmt.2f", v.ext>>
    ELSE IF v.den = 0 THEN <<"n", "a", "n">>
    ELSE LET h == RoundHalfEven(100 * v.num, v.den)
         IN Digits(h \div 100) \o <<".", DigitChar((h % 100) \div 10), DigitChar(h % 10)>>

\* variant that rejects only a vector that is too short
MutGetInfoRaises(self, metrics_value) == Len(metrics_value) < self.num_metrics
\* get_info: the length test
GetInfoRaises(self, metrics_value) == Len(metrics_value) # self.num_metrics

\* get_info: the report, line by line; a metric's line is
\* f'{metric_name[:14]}\t: {metrics_value[i]:.2f}\n'
GetInfoReport(self, metrics_value) ==
    << <<"Metrics \t: Values">>, <<"--------------- | ----">> >>
    \o [i \in 1..Len(self.metrics_name) |->
           <<Take(self.metrics_name[i], 14), "\t: ", Fmt2(metrics_value[i])>>]

\* rows of prediction scores: one peak per class, and a row of equal scores
ScoreRows(C) ==
    {[j \in 1..C |-> IF j = c THEN 2 ELSE 1] : c \in 1..C} \cup {[j \in 1..C |-> 1]}

\* one-hot encoding of a label vector
OneHotRows(C, labels) ==
    [i \in 1..Len(labels) |-> [j \in 1..C |-> IF j = labels[i] + 1 THEN 1 ELSE 0]]

\* the true labels in the form compute expects them
YTrueArg(self, labels) ==
    IF self.run_argmax_on_y_true THEN OneHotRows(self.num_classes, labels) ELSE labels

\* the vectors a caller hands to get_info: the vector compute returns on the
\* batch, and that vector one value short or one value long
InfoInputs(self, b) ==
    LET computed == Compute(self, b.scores, YTrueArg(self, b.labels))
    IN {computed, Take(computed, Len(computed) - 1), computed \o <<Zero>>}

MetricsInit ==
    /\ \E C \in 1..MaxClasses, ra \in BOOLEAN, rapc \in BOOLEAN :
          self_m = NewMetrics(C, ra, rapc)
    /\ \E B \in 1..MaxBatch :
          batch \in [scores : [1..B -> ScoreRows(self_m.num_classes)],
                     labels : [1..B -> 0..(self_m.num_classes - 1)]]
    /\ m_op = "init"
    /\ m_arg = <<>>
    /\ m_ret = <<>>
    /\ m_err = "none"
    /\ mode = "train"
    /\ use_background = FALSE
    /\ tree = NoSplitTree
    /\ dg_pc = "idle"
    /\ li = 1
    /\ bi = 1
    /\ data = <<>>
    /\ dg_err = "none"
    /\ dataset = <<>>
    /\ entry = "none"
    /\ infer_dataloader = "None"
    /\ infer_datapath = "None"
    /\ source = <<>>
    /\ loader = "None"
    /\ phase = "idle"
    /\ inf_err = "none"
    /\ model = "none"
    /\ pos = 0
    /\ output = <<>>
    /\ images_paths = <<>>
    /\ save_calls = 0
    /\ sv_pc = "idle"
    /\ sv_args = <<>>
    /\ k = 0
    /\ row = 0
    /\ sep = <<",">>
    /\ file = NoFile

\* metrics.compute(y_pred, y_true) on the batch
M_Compute ==
    /\ m_arg' = [y_pred |-> batch.scores, y_true |-> YTrueArg(self_m, batch.labels)]
    /\ m_ret' = Compute(self_m, m_arg'.y_pred, m_arg'.y_true)
    /\ m_op' = "compute"
    /\ m_err' = "none"
    /\ UNCHANGED <<self_m, batch>>
    /\ UNCHANGED dataVars
    /\ UNCHANGED inferVars

\* self.metrics_per_class(y_pred, y_true) on the batch's predicted and true labels
M_AccPerClass ==
    /\ self_m.run_acc_per_class
    /\ m_arg' = [y_pred |-> ArgMaxRows(batch.scores), y_true |-> batch.labels]
    /\ m_ret' = AccuracyPerClass(self_m.num_classes, m_arg'.y_pred, m_arg'.y_true)
    /\ m_op' = "acc_per_class"
    /\ m_err' = "none"
    /\ UNCHANGED <<self_m, batch>>
    /\ UNCHANGED dataVars
    /\ UNCHANGED inferVars

M_GetNames ==
    /\ m_op' = "get_names"
    /\ m_arg' = <<>>
    /\ m_ret' = GetNames(self_m)
    /\ m_err' = "none"
    /\ UNCHANGED <<self_m, batch>>
    /\ UNCHANGED dataVars
    /\ UNCHANGED inferVars

M_InitMetrics ==
    /\ m_op' = "init_metrics"
    /\ m_arg' = <<>>
    /\ m_ret' = InitMetrics(self_m)
    /\ m_err' = "none"
    /\ UNCHANGED <<self_m, batch>>
    /\ UNCHANGED dataVars
    /\ UNCHANGED inferVars

M_GetInfo ==
    /\ \E metrics_value \in InfoInputs(self_m, batch) :
          /\ m_arg' = metrics_value
          /\ IF GetInfoRaises(self_m, metrics_value)
             THEN /\ m_err' = "ValueError"
                  /\ m_ret' = <<>>
             ELSE /\ m_err' = "none"
                  /\ m_ret' = GetInfoReport(self_m, metrics_value)
    /\ m_op' = "get_info"
    /\ UNCHANGED <<self_m, batch>>
    /\ UNCHANGED dataVars
    /\ UNCHANGED inferVars

MetricsNext == M_Compute \/ M_AccPerClass \/ M_GetNames \/ M_InitMetrics \/ M_GetInfo

SpecMetrics == MetricsInit /\ [][MetricsNext]_vars

-----------------------------------------------------------------------------
(* infer and save_infer *)

\* k of get_topk_prediction(y_pred, k=3)
TopK == 3

\* the separators a caller configures
Seps == {<<>>, <<",">>, <<";", " ">>}

\* a file left by an earlier run
OldFile == [exists |-> TRUE, lines |-> << <<"o", "l", "d">> >>]

\* the path of the n-th image of a run
ImagePath(n) == <<"p">> \o Digits(n)

\* Rows of ranked predictions (class index, class name, confidence in
\* thousandths), by descending confidence, as get_topk_prediction returns them.
RowA(kk) == [j \in 1..kk |-> [idx |-> j - 1, name |-> <<"c">> \o Digits(j), conf |-> 1000 \div (j + 1)]]
RowB(kk) == [j \in 1..kk |-> [idx |-> kk - j, name |-> <<"d">> \o Digits(j), conf |-> 907 \div (10 ^ (j - 1))]]

\* get_topk_prediction for the n-th image of a run
TopKOf(n) == IF n % 2 = 1 THEN RowA(TopK) ELSE RowB(TopK)

\* s[:-n] of Python for n >= 0: s[:-0] is s[:0], the empty string
PySliceOff(s, n) ==
    IF n = 0 THEN <<>>
    ELSE IF n >= Len(s) THEN <<>>
    ELSE SubSeq(s, 1, Len(s) - n)

\* f'{conf * 100:.1f}' of a confidence given in thousandths
Fmt1Pct(conf) == Digits(conf \div 10) \o <<".", DigitChar(conf % 10)>>

\* lines 103-105: the header, every field followed by sep
RECURSIVE HeaderFrom(_, _, _)
HeaderFrom(j, kk, sp) ==
    IF j > kk THEN <<>>
    ELSE <<"P", "r", "e", "d", "i", "c", "t", "i", "o", "n", " ">> \o Digits(j) \o sp
         \o <<"C", "o", "n", "f", "i", "d", "e", "n", "c", "e", " ">> \o Digits(j) \o <<" ", "(", "e", "n", " ", "%", ")">> \o sp
         \o HeaderFrom(j + 1, kk, sp)

Header(kk, sp) == <<"I", "m", "a", "g", "e">> \o sp \o HeaderFrom(1, kk, sp)

\* lines 112-114: the line of image i, every field followed by sep
RECURSIVE LineFrom(_, _, _, _)
LineFrom(preds, j, kk, sp) ==
    IF j > kk THEN <<>>
    ELSE preds[j].name \o sp \o Fmt1Pct(preds[j].conf) \o sp
         \o LineFrom(preds, j + 1, kk, sp)

Line(path, preds, kk, sp) == path \o sp \o LineFrom(preds, 1, kk, sp)

\* lines 109 and 115: what f.write receives, without the final newline
Written(line, sp) == PySliceOff(line, Len(sp))

\* variant without the else branch of line 49
MutNoElse(dl, dp) == IF dl = "None" THEN "created" ELSE "given"
\* variant that rejects a call giving both arguments
MutBothRaise(dl, dp) ==
    IF dl = "None"
    THEN IF dp # "None" THEN "created" ELSE "ValueError"
    ELSE IF dp # "None" THEN "ValueError" ELSE "given"
\* lines 45-50: which loader infer uses, or the error it raises
ChooseLoader(dl, dp) ==
    IF dl = "None"
    THEN IF dp # "None" THEN "created" ELSE "ValueError"
    ELSE "given"

\* variant with save_infer called inside the loop body
MutExhausted(p, src) == p = Len(src) \/ p >= 1
\* line 65 / 77: the for loop is over when the source has no batch left
Exhausted(p, src) == p = Len(src)

\* variant that opens the file for writing before k is computed
MutFileAtBegin(f) == [exists |-> TRUE, lines |-> <<>>]
\* lines 100-106 of save_infer do not touch the destination file
FileAtBegin(f) == f

\* number of images before batch number b
RECURSIVE ImagesBefore(_, _)
ImagesBefore(src, b) == IF b <= 1 THEN 0 ELSE src[b - 1] + ImagesBefore(src, b - 1)

\* Either infer is called, or a caller calls save_infer itself on N images
\* with kk predictions each.
InferInit ==
    /\ entry \in {"infer", "save_infer"}
    /\ sep \in Seps
    /\ file \in {NoFile, OldFile}
    /\ IF entry = "infer"
       THEN /\ infer_dataloader \in {"None", "given"}
            /\ infer_datapath \in {"None", "given"}
            /\ \E n \in 0..MaxBatches : source \in [1..n -> 1..MaxBatch]
            /\ save_calls = 0
            /\ sv_pc = "idle"
            /\ sv_args = <<>>
       ELSE /\ infer_dataloader = "None"
            /\ infer_datapath = "None"
            /\ source = <<>>
            /\ save_calls = 1
            /\ sv_pc = "called"
            /\ \E n \in 0..MaxImages, kk \in 0..MaxK :
                  \E out \in [1..n -> {RowA(kk), RowB(kk)}] :
                     sv_args = [output |-> out, images_paths |-> [i \in 1..n |-> ImagePath(i)]]
    /\ loader = "None"
    /\ phase = "idle"
    /\ inf_err = "none"
    /\ model = "none"
    /\ pos = 0
    /\ output = <<>>
    /\ images_paths = <<>>
    /\ k = 0
    /\ row = 0
    /\ mode = "train"
    /\ use_background = FALSE
    /\ tree = NoSplitTree
    /\ dg_pc = "idle"
    /\ li = 1
    /\ bi = 1
    /\ data = <<>>
    /\ dg_err = "none"
    /\ dataset = <<>>
    /\ self_m = [num_classes |-> 0]
    /\ m_op = "idle"
    /\ m_arg = <<>>
    /\ m_ret = <<>>
    /\ m_err = "none"
    /\ batch = <<>>

\* lines 43-50: the device, then the choice of the batch source
I_Begin ==
    /\ entry = "infer"
    /\ phase = "idle"
    /\ LET c == ChooseLoader(infer_dataloader, infer_datapath) IN
       IF c = "ValueError"
       THEN /\ phase' = "error"
            /\ inf_err' = "ValueError"
            /\ loader' = loader
       ELSE /\ phase' = "loading-model"
            /\ inf_err' = inf_err
            /\ loader' = c
    /\ UNCHANGED <<entry, infer_dataloader, infer_datapath, source, model, pos, output,
                   images_paths, save_calls, sv_pc, sv_args, k, row, sep, file>>
    /\ UNCHANGED <<dataVars, metricsVars>>

\* lines 53-63: the model is built, the weights are loaded with strict=True,
\* the accumulators start empty
I_LoadModel ==
    /\ entry = "infer"
    /\ phase = "loading-model"
    /\ model' = "loaded"
    /\ output' = <<>>
    /\ images_paths' = <<>>
    /\ phase' = "batch-loop"
    /\ UNCHANGED <<entry, infer_dataloader, infer_datapath, source, loader, inf_err, pos,
                   save_calls, sv_pc, sv_args, k, row, sep, file>>
    /\ UNCHANGED <<dataVars, metricsVars>>

\* lines 54-55: load_weights or the strict load raises (a missing file, a
\* parameter name that does not match); the model was built at line 53
I_LoadFails ==
    /\ entry = "infer"
    /\ phase = "loading-model"
    /\ model' = "built"
    /\ phase' = "error"
    /\ inf_err' = "LoadError"
    /\ UNCHANGED <<entry, infer_dataloader, infer_datapath, source, loader, pos, output,
                   images_paths, save_calls, sv_pc, sv_args, k, row, sep, file>>
    /\ UNCHANGED <<dataVars, metricsVars>>

\* lines 65-75: one batch
I_Batch ==
    /\ entry = "infer"
    /\ phase = "batch-loop"
    /\ ~Exhausted(pos, source)
    /\ LET b == source[pos + 1]
           first == ImagesBefore(source, pos + 1)
       IN /\ output' = output \o [i \in 1..b |-> TopKOf(first + i)]
          /\ images_paths' = images_paths \o [i \in 1..b |-> ImagePath(first + i)]
    /\ pos' = pos + 1
    /\ UNCHANGED <<entry, infer_dataloader, infer_datapath, source, loader, phase, inf_err,
                   model, save_calls, sv_pc, sv_args, k, row, sep, file>>
    /\ UNCHANGED <<dataVars, metricsVars>>

\* lines 65-75: loading or processing the batch raises
I_BatchFails ==
    /\ entry = "infer"
    /\ phase = "batch-loop"
    /\ ~Exhausted(pos, source)
    /\ phase' = "error"
    /\ inf_err' = "BatchError"
    /\ UNCHANGED <<entry, infer_dataloader, infer_datapath, source, loader, model, pos,
                   output, images_paths, save_calls, sv_pc, sv_args, k, row, sep, file>>
    /\ UNCHANGED <<dataVars, metricsVars>>

\* lines 77-81: the call of save_infer
I_CallSave ==
    /\ entry = "infer"
    /\ phase = "batch-loop"
    /\ Exhausted(pos, source)
    /\ phase' = "saving"
    /\ save_calls' = save_calls + 1
    /\ sv_pc' = "called"
    /\ sv_args' = [output |-> output, images_paths |-> images_paths]
    /\ UNCHANGED <<entry, infer_dataloader, infer_datapath, source, loader, inf_err, model,
                   pos, output, images_paths, k, row, sep, file>>
    /\ UNCHANGED <<dataVars, metricsVars>>

\* save_infer, lines 100-106: k = len(output[0]) raises IndexError on an empty list
S_Begin ==
    /\ sv_pc = "called"
    /\ file' = FileAtBegin(file)
    /\ IF sv_args.output = <<>>
       THEN /\ sv_pc' = "raised"
            /\ inf_err' = "IndexError"
            /\ phase' = (IF entry = "infer" THEN "error" ELSE phase)
            /\ k' = k
       ELSE /\ sv_pc' = "header"
            /\ k' = Len(sv_args.output[1])
            /\ UNCHANGED <<inf_err, phase>>
    /\ UNCHANGED <<entry, infer_dataloader, infer_datapath, source, loader, model, pos,
                   output, images_paths, save_calls, sv_args, row, sep>>
    /\ UNCHANGED <<dataVars, metricsVars>>

\* save_infer, lines 108-109: open(file, 'w') and the header line
S_Open ==
    /\ sv_pc = "header"
    /\ file' = [exists |-> TRUE, lines |-> <<Written(Header(k, sep), sep)>>]
    /\ row' = 1
    /\ sv_pc' = "rows"
    /\ UNCHANGED <<entry, infer_dataloader, infer_datapath, source, loader, phase, inf_err,
                   model, pos, output, images_paths, save_calls, sv_args, k, sep>>
    /\ UNCHANGED <<dataVars, metricsVars>>

\* save_infer, lines 111-115: the line of one image
S_WriteRow ==
    /\ sv_pc = "rows"
    /\ row <= Len(sv_args.output)
    /\ file' = [file EXCEPT !.lines =
                  Append(@, Written(Line(sv_args.images_paths[row], sv_args.output[row], k, sep), sep))]
    /\ row' = row + 1
    /\ UNCHANGED <<entry, infer_dataloader, infer_datapath, source, loader, phase, inf_err,
                   model, pos, output, images_paths, save_calls, sv_pc, sv_args, k, sep>>
    /\ UNCHANGED <<dataVars, metricsVars>>

\* save_infer, lines 116-118: the file is closed and save_infer returns; infer
\* returns after it
S_Close ==
    /\ sv_pc = "rows"
    /\ row > Len(sv_args.output)
    /\ sv_pc' = "returned"
    /\ phase' = (IF entry = "infer" THEN "done" ELSE phase)
    /\ UNCHANGED <<entry, infer_dataloader, infer_datapath, source, loader, inf_err, model,
                   pos, output, images_paths, save_calls, sv_args, k, row, sep, file>>
    /\ UNCHANGED <<dataVars, metricsVars>>

InferNext ==
    \/ I_Begin \/ I_LoadModel \/ I_LoadFails \/ I_Batch \/ I_BatchFails \/ I_CallSave
    \/ S_Begin \/ S_Open \/ S_WriteRow \/ S_Close

SpecInfer == InferInit /\ [][InferNext]_vars

-----------------------------------------------------------------------------
(* Claims about infer and save_infer *)

Neither == entry = "infer" /\ infer_dataloader = "None" /\ infer_datapath = "None"
Both == entry = "infer" /\ infer_dataloader # "None" /\ infer_datapath # "None"

\* C6: infer called with neither a dataloader nor a datapath leaves the idle
\* phase only by raising ValueError: the model is never built, no weights are
\* loaded, no batch is processed, save_infer is never called and the
\* destination file is left as it was.
C6_NeitherRaises ==
    /\ [](Neither =>
            /\ phase \in {"idle", "error"}
            /\ phase = "idle" => ENABLED I_Begin
            /\ phase = "error" => inf_err = "ValueError"
            /\ model = "none"
            /\ loader = "None"
            /\ pos = 0
            /\ output = <<>>
            /\ save_calls = 0
            /\ sv_pc = "idle")
    /\ [][Neither => file' = file]_vars

C6_Witness ==
    /\ Neither
    /\ phase = "error"
    /\ inf_err = "ValueError"
    /\ file = OldFile

\* C7 as stated: supplying both the dataloader and the datapath is a
\* configuration error that aborts the run.
C7_BothIsError ==
    (Both /\ phase # "idle") => (phase = "error" /\ inf_err = "ValueError")

\* C7 as amended: supplying both is accepted; the given dataloader is used, no
\* loader is created from the datapath and no ValueError is raised. ValueError
\* is raised only when neither is supplied.
C7_BothUsesLoader ==
    /\ (Both /\ phase # "idle") => (loader = "given" /\ inf_err # "ValueError")
    /\ (entry = "infer" /\ phase # "idle" /\ infer_dataloader = "None" /\ infer_datapath # "None")
          => loader = "created"
    /\ inf_err = "ValueError" => Neither

C7_Witness ==
    /\ Both
    /\ phase = "done"
    /\ loader = "given"
    /\ Len(file.lines) > 1

PhaseStep(p, q) ==
    \/ p = "idle" /\ q = "loading-model"
    \/ p = "loading-model" /\ q = "batch-loop"
    \/ p = "batch-loop" /\ q \in {"batch-loop", "saving"}
    \/ p = "saving" /\ q \in {"saving", "done"}
    \/ p \in {"idle", "loading-model", "batch-loop", "saving"} /\ q = "error"

\* C8: a run of infer goes idle, loading-model, batch-loop, saving, done in
\* that order, one phase at a time, and leaves a phase only forwards or by an
\* error; the weights are loaded before any batch is processed; save_infer is
\* called at most once, only once the batch source is exhausted, and exactly
\* once in a run that reaches saving; a failure to load the weights or to
\* process a batch ends the run with save_infer never called and the
\* destination file untouched.
C8_PhaseOrder ==
    /\ [](entry = "infer" =>
            /\ phase \in {"batch-loop", "saving", "done"} => model = "loaded"
            /\ pos > 0 => model = "loaded"
            /\ save_calls <= 1
            /\ save_calls = 1 => (pos = Len(source) /\ phase \in {"saving", "done", "error"})
            /\ phase \in {"saving", "done"} => save_calls = 1
            /\ phase = "done" => sv_pc = "returned"
            /\ inf_err \in {"LoadError", "BatchError"} =>
                  (phase = "error" /\ save_calls = 0 /\ sv_pc = "idle"))
    /\ [][entry = "infer" =>
            /\ PhaseStep(phase, phase')
            /\ file' # file => (phase = "saving" /\ phase' = "saving")
            /\ inf_err' \in {"LoadError", "BatchError"} => file' = file]_vars

\* a run of two batches that reached done and wrote its file
C8_Witness ==
    /\ entry = "infer"
    /\ phase = "done"
    /\ pos = 2
    /\ save_calls = 1
    /\ Len(file.lines) = 1 + Len(output)

\* C9: save_infer called with an empty result list raises (IndexError) and
\* leaves the destination file as it was, neither created nor truncated; an
\* infer run whose batch source yields no batch therefore never reaches done:
\* once it has called save_infer it ends in error.
C9_EmptyResultsFail ==
    /\ []((sv_pc \notin {"idle", "called"} /\ sv_args.output = <<>>) =>
            (sv_pc = "raised" /\ inf_err = "IndexError"))
    /\ []((sv_pc = "called" /\ sv_args.output = <<>>) => ENABLED S_Begin)
    /\ []((entry = "infer" /\ source = <<>>) =>
            /\ phase # "done"
            /\ (save_calls = 1 /\ sv_pc # "called") => (phase = "error" /\ inf_err = "IndexError"))
    /\ [][(sv_pc # "idle" /\ sv_args.output = <<>>) => file' = file]_vars

\* infer on an empty batch source, with a file of an earlier run in place
C9_Witness ==
    /\ entry = "infer"
    /\ source = <<>>
    /\ sv_pc = "raised"
    /\ phase = "error"
    /\ inf_err = "IndexError"
    /\ file = OldFile

\* the fields of the header and of the line of image i, as the claim counts them
RECURSIVE HeaderFieldsFrom(_, _)
HeaderFieldsFrom(j, kk) ==
    IF j > kk THEN <<>>
    ELSE << <<"P", "r", "e", "d", "i", "c", "t", "i", "o", "n", " ">> \o Digits(j),
            <<"C", "o", "n", "f", "i", "d", "e", "n", "c", "e", " ">> \o Digits(j) \o <<" ", "(", "e", "n", " ", "%", ")">> >>
         \o HeaderFieldsFrom(j + 1, kk)

HeaderFields(kk) == << <<"I", "m", "a", "g", "e">> >> \o HeaderFieldsFrom(1, kk)

RECURSIVE PredFieldsFrom(_, _, _)
PredFieldsFrom(preds, j, kk) ==
    IF j > kk THEN <<>>
    ELSE <<preds[j].name, Fmt1Pct(preds[j].conf)>> \o PredFieldsFrom(preds, j + 1, kk)

LineFields(i) == <<sv_args.images_paths[i]>> \o PredFieldsFrom(sv_args.output[i], 1, k)

\* the fields separated by sp, no separator after the last
RECURSIVE Join(_, _)
Join(fields, sp) ==
    IF Len(fields) = 0 THEN <<>>
    ELSE IF Len(fields) = 1 THEN fields[1]
    ELSE fields[1] \o sp \o Join(Tail(fields), sp)

StartsWith(s, t) == Len(t) <= Len(s) /\ SubSeq(s, 1, Len(t)) = t
EndsWith(s, t) == Len(t) <= Len(s) /\ SubSeq(s, Len(s) - Len(t) + 1, Len(s)) = t

\* what C10 says of the file save_infer wrote, for the separator of the call
FileAsClaimed ==
    LET N == Len(sv_args.output) IN
    /\ file.exists
    /\ Len(file.lines) = N + 1
    /\ Len(HeaderFields(k)) = 2 * k + 1
    /\ file.lines[1] = Join(HeaderFields(k), sep)
    /\ \A i \in 1..N :
          /\ Len(LineFields(i)) = 2 * k + 1
          /\ file.lines[i + 1] = Join(LineFields(i), sep)
          /\ StartsWith(file.lines[i + 1], sv_args.images_paths[i])
    /\ \A i \in 1..(N + 1) : ~EndsWith(file.lines[i], sep)

\* C10 as stated: for every separator, once save_infer has returned the file
\* has N + 1 lines, a header and one line per image in input order, line i
\* starting with images_paths[i]; every line is its 2k + 1 fields separated
\* by sep, the one trailing separator removed, and does not end with sep.
C10_FileShape == sv_pc = "returned" => FileAsClaimed

\* The same for the separators that are not the empty string.
SaveInferNonEmptySep == (sv_pc = "returned" /\ sep # <<>>) => FileAsClaimed

-----------------------------------------------------------------------------
(* Claims about Metrics *)

\* C3: in every state of a Metrics object, after any calls, the number of
\* names, the length of the init_metrics() vector, num_metrics and the length
\* of the vector compute() returned are all equal: 2 + 5 + num_classes with
\* run_acc_per_class, 2 + 5 without.
C3_LengthsAgree ==
    /\ Len(GetNames(self_m)) = self_m.num_metrics
    /\ Len(InitMetrics(self_m)) = self_m.num_metrics
    /\ m_op = "compute" => Len(m_ret) = self_m.num_metrics
    /\ m_op = "get_names" => Len(m_ret) = self_m.num_metrics
    /\ m_op = "init_metrics" => Len(m_ret) = self_m.num_metrics
    /\ self_m.num_metrics =
          IF self_m.run_acc_per_class THEN 2 + 5 + self_m.num_classes ELSE 2 + 5

C3_Witness ==
    /\ m_op = "compute"
    /\ self_m.run_acc_per_class
    /\ self_m.num_classes = 3
    /\ Len(m_ret) = 10

\* the samples of a batch whose true label is c, and those also predicted c
TrueIs(y_true, c) == {i \in 1..Len(y_true) : y_true[i] = c}
HitIs(y_pred, y_true, c) == {i \in 1..Len(y_true) : y_true[i] = c /\ y_pred[i] = c}

\* the per-class list `acc` is what the claim says for label vectors y_pred, y_true
PerClassAsClaimed(acc, C, y_pred, y_true) ==
    /\ Len(acc) = C
    /\ \A c \in 0..(C - 1) :
          LET T == Cardinality(TrueIs(y_true, c))
              K == Cardinality(HitIs(y_pred, y_true, c))
              r == acc[c + 1]
          IN IF T = 0
             THEN r = Zero
             ELSE r.ext = <<>> /\ r.den > 0 /\ r.num * T = K * r.den

\* C4: Accuracy_per_class returns num_classes entries in class order; the
\* entry of a class absent from y_true is 0 (no error, no nan), the entry of a
\* class present in y_true is (hits of the class) / (samples of the class).
\* The same holds of the per-class tail of the vector compute returns.
C4_PerClassAccuracy ==
    /\ m_op = "acc_per_class" =>
          /\ m_err = "none"
          /\ PerClassAsClaimed(m_ret, self_m.num_classes, m_arg.y_pred, m_arg.y_true)
    /\ (m_op = "compute" /\ self_m.run_acc_per_class) =>
          PerClassAsClaimed(SubSeq(m_ret, 2 + 5 + 1, Len(m_ret)), self_m.num_classes,
                            ArgMaxRows(batch.scores), batch.labels)

\* one class never occurs in y_true, another occurs twice and is hit once
C4_Witness ==
    /\ m_op = "acc_per_class"
    /\ \E c \in 0..(self_m.num_classes - 1) :
          TrueIs(m_arg.y_true, c) = {} /\ m_ret[c + 1] = Zero
    /\ \E c \in 0..(self_m.num_classes - 1) :
          /\ Cardinality(TrueIs(m_arg.y_true, c)) = 2
          /\ Cardinality(HitIs(m_arg.y_pred, m_arg.y_true, c)) = 1
          /\ m_ret[c + 1] = [num |-> 1, den |-> 2, ext |-> <<>>]

\* s is the first min(n, Len(t)) characters of t
IsPrefixOfLen(s, t, n) ==
    /\ Len(s) = (IF Len(t) < n THEN Len(t) ELSE n)
    /\ \A i \in 1..Len(s) : s[i] = t[i]

\* C5: a get_info call raises ValueError exactly when the vector's length
\* differs from num_metrics; otherwise it returns a report with, after the two
\* heading lines, one line per metric name in get_names() order, line i
\* holding name i (its first 14 characters) and value i; in both cases the
\* Metrics object is left as it was.
C5_GetInfo ==
    [][m_op' = "get_info" =>
         /\ self_m' = self_m
         /\ m_err' \in {"none", "ValueError"}
         /\ (m_err' = "ValueError") <=> (Len(m_arg') # self_m.num_metrics)
         /\ m_err' = "ValueError" => m_ret' = <<>>
         /\ m_err' = "none" =>
               /\ Len(m_ret') = 2 + Len(GetNames(self_m))
               /\ \A i \in 1..Len(GetNames(self_m)) :
                     /\ IsPrefixOfLen(m_ret'[2 + i][1], GetNames(self_m)[i], 14)
                     /\ m_ret'[2 + i][3] = Fmt2(m_arg'[i])]_vars

\* a report with per-class lines, one of them showing 0.50
C5_Witness ==
    /\ m_op = "get_info"
    /\ m_err = "none"
    /\ self_m.run_acc_per_class
    /\ Len(m_ret) = 2 + self_m.num_metrics
    /\ \E i \in 1..self_m.num_metrics : m_ret[2 + i][3] = <<"0", ".", "5", "0">>

-----------------------------------------------------------------------------
(* Claims about DataGenerator *)

ExpectedLeaves(ub) ==
    IF ub THEN {<<l, b>> : l \in Range(LABELS), b \in Range(BACKGROUND)}
          ELSE {<<l>> : l \in Range(LABELS)}

Complete(t, ub) == t.split /\ \A f \in ExpectedLeaves(ub) : DirOf(t, f).exists

RECURSIVE SumEntries(_, _)
SumEntries(t, leaves) ==
    IF leaves = {} THEN 0
    ELSE LET f == CHOOSE x \in leaves : TRUE
         IN Cardinality(DirOf(t, f).entries) + SumEntries(t, leaves \ {f})

DG_Finished == dg_pc \in {"returned", "raised"}

\* the triple the claim expects for entry n of leaf folder f
ExpectedTriple(f, n) ==
    IF Len(f) = 2 THEN <<<<f[1], f[2], n>>, f[1], f[2]>>
                  ELSE <<<<f[1], n>>, f[1], "None">>

\* C1: with a valid split, an existing split folder and every expected leaf
\* folder present, construction never raises, runs to its return, and the
\* returned dataset's length is the sum of the entry counts of the leaf
\* folders: every entry is recorded exactly once as (path, label,
\* background-or-None) and nothing else is recorded.
C1_LenIsSumOfEntries ==
    (mode \in ValidModes /\ Complete(tree, use_background)) =>
        /\ dg_pc # "raised"
        /\ ~DG_Finished => ENABLED DataNext
        /\ dg_pc = "returned" =>
              LET d == dataset[1] IN
              /\ Len(dataset) = 1
              /\ DatasetLen(d) = SumEntries(tree, ExpectedLeaves(use_background))
              /\ \A f \in ExpectedLeaves(use_background) :
                    \A n \in DirOf(tree, f).entries :
                       Cardinality({i \in 1..Len(d.data) : d.data[i] = ExpectedTriple(f, n)}) = 1
              /\ \A i \in 1..Len(d.data) :
                    \E f \in ExpectedLeaves(use_background) :
                       \E n \in DirOf(tree, f).entries : d.data[i] = ExpectedTriple(f, n)

\* the scenario: cat/indoor/a, cat/outdoor/b, dog/indoor/c, dog/outdoor empty
C1_Witness ==
    /\ dg_pc = "returned"
    /\ use_background
    /\ Complete(tree, TRUE)
    /\ Cardinality(tree.bg[<<"cat", "indoor">>].entries) = 1
    /\ Cardinality(tree.bg[<<"cat", "outdoor">>].entries) = 1
    /\ Cardinality(tree.bg[<<"dog", "indoor">>].entries) = 1
    /\ tree.bg[<<"dog", "outdoor">>].entries = {}
    /\ DatasetLen(dataset[1]) = 3

\* C2: with a valid split, if some expected leaf folder is absent the
\* constructor ends by raising FileNotFoundError, whichever folder is missing
\* and whatever was scanned before it; the caller never holds a dataset.
C2_MissingLeafRaises ==
    (mode \in ValidModes /\ \E f \in ExpectedLeaves(use_background) : ~DirOf(tree, f).exists) =>
        /\ dataset = <<>>
        /\ dg_pc # "returned"
        /\ ~DG_Finished => ENABLED DataNext
        /\ dg_pc = "raised" => dg_err = "FileNotFoundError"

\* a later leaf folder is missing after files were already appended
C2_Witness ==
    /\ dg_pc = "raised"
    /\ dg_err = "FileNotFoundError"
    /\ mode \in ValidModes
    /\ tree.split
    /\ Len(data) >= 2
    /\ dataset = <<>>

=============================================================================
